---- MODULE Spec2Model ----
(***************************************************************************)
(* The channel ledger of lightning-offline (src/src/channel.rs) over its   *)
(* SQLite store (src/src/storage.rs), and the node around it: startup      *)
(* (src/src/main.rs), the HTTP facade (src/src/api.rs) and the gossip      *)
(* event loop (src/src/p2p.rs).                                            *)
(*                                                                         *)
(* u64 quantities are modelled at a reduced width of BITS bits: every      *)
(* arithmetic step wraps modulo 2^BITS when the build has overflow checks  *)
(* off (cargo's release profile) and panics when it has them on (the dev   *)
(* profile).  The store binds every u64 `as i64` and reads it back         *)
(* `as u64`; both casts are modelled as two's complement at that width.    *)
(***************************************************************************)
EXTENDS Integers, Sequences, FiniteSets, TLC

\* ------------------------------------------------------------------ bounds
BITS == 3
MaxChannels == 2
MaxOps == 4
MaxRequests == 2
MaxKeys == 3
MaxLen == 2
MaxPeers == 2
MaxConnections == 2

Word == 2 ^ BITS
Half == Word \div 2

ChannelIds == 1 .. MaxChannels

\* Inputs the operations are driven with.
Capacities == {3, 4}
Amounts == {1, Word - 1}
SequenceInputs == {0, 1, 2, Word - 1}
PeerNodeIds == {"12D3KooWpeer", "02hexpubkey", "abcd", "not-hex"}

\* Each handler is given the first of its store calls that the store
\* rejects ("none": all succeed).  The calls it can see rejected are those
\* it makes: none when it returns (or panics) before its first one.
Reached(result_if_none_fails, calls) ==
    IF result_if_none_fails = "Ok" THEN calls \cup {"none"} ELSE {"none"}

VARIABLES
    overflow_checks,  \* the build: TRUE = arithmetic overflow panics
    channels,         \* ChannelManager.channels
    commitment_txs,   \* ChannelManager.commitment_txs
    db_channels,      \* table channels, keyed by id
    db_commitments,   \* table commitment_transactions, in insertion order
    db_payments,      \* table payments, in insertion order
    last,             \* the last call: operation, arguments, result
    ops,              \* number of calls made so far
    clean,            \* no call so far ended in a store error or a panic
    startup,          \* main(): where it is, and the steps it has completed
    rwlock,           \* LightningNode.channel_manager: holder of the write guard
    requests,         \* the facade's requests in flight
    published,        \* messages given to P2PNode::broadcast_message
    message_queue,    \* messages held by the channel behind message_sender
    inbound,          \* the gossipsub message the event loop handled last
    crypto,           \* KeyManager, a signature in hand, its last call
    peers,            \* P2PNode.peers
    connections       \* the swarm: established connections of each peer

\* What the node holds besides the ledger and its store.
node == <<startup, rwlock, requests, published, message_queue, inbound,
         crypto, peers, connections>>

vars == <<overflow_checks, channels, commitment_txs, db_channels,
          db_commitments, db_payments, last, ops, clean, startup, rwlock,
          requests, published, message_queue, inbound, crypto,
          peers, connections>>

\* ------------------------------------------------------- integer arithmetic
\* u64 `+` and `-` with overflow checks off.
WrappingAdd(a, b) == (a + b) % Word
WrappingSub(a, b) == (a - b + Word) % Word

\* `x as i64` on a u64 and `x as u64` on an i64.
AsI64(u) == IF u >= Half THEN u - Word ELSE u
AsU64(i) == IF i < 0 THEN i + Word ELSE i

\* ------------------------------------------------------------------ storage
\* The row save_channel INSERTs.
ChannelRow(channel) ==
    [capacity        |-> AsI64(channel.capacity),
     my_balance      |-> AsI64(channel.my_balance),
     peer_balance    |-> AsI64(channel.peer_balance),
     sequence_number |-> AsI64(channel.sequence_number),
     is_open         |-> channel.is_open]

\* An UPDATE that leaves is_open out of its SET list.
UpdatedRowWithoutIsOpen(row, channel) ==
    [row EXCEPT !.my_balance      = AsI64(channel.my_balance),
                !.peer_balance    = AsI64(channel.peer_balance),
                !.sequence_number = AsI64(channel.sequence_number)]

\* The row as update_channel's UPDATE ... SET leaves it.
UpdatedRow(row, channel) ==
    [row EXCEPT !.my_balance      = AsI64(channel.my_balance),
                !.peer_balance    = AsI64(channel.peer_balance),
                !.sequence_number = AsI64(channel.sequence_number),
                !.is_open         = channel.is_open]

\* An UPDATE without its WHERE clause: every row is set.
UpdateChannelEveryRow(rows, id, channel) ==
    [i \in DOMAIN rows |-> UpdatedRow(rows[i], channel)]

\* update_channel: UPDATE ... WHERE id = ?5 (no row with that id: no change).
UpdateChannel(rows, id, channel) ==
    IF id \in DOMAIN rows
    THEN [rows EXCEPT ![id] = UpdatedRow(rows[id], channel)]
    ELSE rows

\* The PaymentChannel get_all_channels builds from a row.
LoadChannel(row) ==
    [capacity        |-> AsU64(row.capacity),
     my_balance      |-> AsU64(row.my_balance),
     peer_balance    |-> AsU64(row.peer_balance),
     sequence_number |-> AsU64(row.sequence_number),
     is_open         |-> row.is_open]

\* The row save_commitment_transaction INSERTs.
CommitmentRow(commitment) ==
    [channel_id   |-> commitment.channel_id,
     sequence     |-> AsI64(commitment.sequence),
     my_balance   |-> AsI64(commitment.my_balance),
     peer_balance |-> AsI64(commitment.peer_balance)]

LoadCommitment(row) ==
    [channel_id   |-> row.channel_id,
     sequence     |-> AsU64(row.sequence),
     my_balance   |-> AsU64(row.my_balance),
     peer_balance |-> AsU64(row.peer_balance)]

\* The row save_payment INSERTs.
PaymentRow(payment) ==
    [channel_id |-> payment.channel_id,
     amount     |-> AsI64(payment.amount),
     direction  |-> payment.direction,
     sequence   |-> AsI64(payment.sequence),
     is_offline |-> payment.is_offline]

\* Rows of `rows` whose channel_id is id, in insertion order.
RECURSIVE RowsOf(_, _)
RowsOf(rows, id) ==
    IF rows = <<>> THEN <<>>
    ELSE IF Head(rows).channel_id = id
         THEN <<Head(rows)>> \o RowsOf(Tail(rows), id)
         ELSE RowsOf(Tail(rows), id)

\* ORDER BY sequence: ascending in the stored (signed) value, rows of equal
\* value kept in insertion order.
RECURSIVE InsertBySequence(_, _)
InsertBySequence(sorted, row) ==
    IF sorted = <<>> THEN <<row>>
    ELSE IF Head(sorted).sequence <= row.sequence
         THEN <<Head(sorted)>> \o InsertBySequence(Tail(sorted), row)
         ELSE <<row>> \o sorted

RECURSIVE OrderBySequence(_)
OrderBySequence(rows) ==
    IF rows = <<>> THEN <<>>
    ELSE InsertBySequence(OrderBySequence(SubSeq(rows, 1, Len(rows) - 1)),
                          rows[Len(rows)])

RECURSIVE MapLoadCommitment(_)
MapLoadCommitment(rows) ==
    IF rows = <<>> THEN <<>>
    ELSE <<LoadCommitment(Head(rows))>> \o MapLoadCommitment(Tail(rows))

\* get_channel_commitments
GetChannelCommitments(rows, id) ==
    MapLoadCommitment(OrderBySequence(RowsOf(rows, id)))

\* ------------------------------------------------------------------ ledger
Call(op, id, amount, sequence, result) ==
    [op |-> op, channel_id |-> id, amount |-> amount,
     sequence |-> sequence, result |-> result]

\* The argument a call does not take.
NoArg == 0 - 1

\* Results of a call: Ok, the handlers' anyhow messages, an error passed up
\* from the store by `?`, or a panic of the handler.
Ok == "Ok"
ChannelNotFound == "Channel not found"
ChannelNotOpen == "Channel is not open"
InsufficientBalance == "Insufficient balance"
InvalidHex == "Invalid hex encoding in peer node ID"
InvalidPublicKey == "Invalid public key format"
StoreError == "store error"
Panic == "panic"

\* ------------------------------------------------------------- the node
\* The steps of main() before the API server is started, in program order.
StartupSteps ==
    <<"Database::new", "migrate", "KeyManager::new", "P2PNode::new",
      "ChannelManager::new">>

\* main() at its select!, every step before it completed.
Serving == [pc |-> "serving", done |-> StartupSteps]

\* The facade's request slots, and a slot no request is using.
Requests == 1 .. MaxRequests
Idle ==
    [pc |-> "idle", kind |-> "none", channel_id |-> NoArg, amount |-> NoArg,
     peer_node_id |-> "none", capacity |-> NoArg, fail |-> "none",
     result |-> "none",
     channel_snapshot |->
         [capacity |-> 0, my_balance |-> 0, peer_balance |-> 0,
          sequence_number |-> 0, is_open |-> FALSE],
     expected |->
         [result |-> "none", channels |-> <<>>, commitment_txs |-> <<>>,
          db_channels |-> <<>>, db_commitments |-> <<>>,
          db_payments |-> <<>>]]

\* No writer holds LightningNode.channel_manager.
Unlocked == 0

\* No gossipsub message handled yet.
NoMessage ==
    [kind |-> "none", decodes |-> FALSE, channel_id |-> NoArg,
     amount |-> NoArg, sequence |-> NoArg, signature_valid |-> FALSE]

\* The peers the swarm can connect to (PeerId), and the overlay as
\* P2PNode::new leaves it: `peers: HashMap::new()`, no connection.
PeerIds == [multihash : 1 .. MaxPeers]
NoPeers == [peer_id \in {} |-> ""]
NoConnections == [peer_id \in PeerIds |-> 0]

\* The key pair of the running node is not followed by the node's
\* specifications: SpecCrypto follows KeyManager on its own.
KeyNotFollowed == [op |-> "none"]

\* The node running, nothing in flight: ApiServer::new and P2PNode::new
\* have run.
NodeInit ==
    /\ startup = Serving
    /\ rwlock = Unlocked
    /\ requests = [r \in Requests |-> Idle]
    /\ published = <<>>
    /\ message_queue = <<>>
    /\ inbound = NoMessage
    /\ crypto = KeyNotFollowed
    /\ peers = NoPeers
    /\ connections = NoConnections

Init ==
    /\ overflow_checks \in BOOLEAN
    /\ channels = <<>>
    /\ commitment_txs = <<>>
    /\ db_channels = <<>>
    /\ db_commitments = <<>>
    /\ db_payments = <<>>
    /\ last = Call("start", NoArg, NoArg, NoArg, Ok)
    /\ ops = 0
    /\ clean = TRUE
    /\ NodeInit

Respond(op, id, amount, sequence, result) ==
    /\ last' = Call(op, id, amount, sequence, result)
    /\ ops' = ops + 1
    /\ clean' = (clean /\ result \notin {StoreError, Panic})

\* The state a handler leaves behind, and what it returns.
Outcome(result, ch, ctx, dbch, dbc, dbp) ==
    [result |-> result, channels |-> ch, commitment_txs |-> ctx,
     db_channels |-> dbch, db_commitments |-> dbc, db_payments |-> dbp]

\* A handler that returned before touching anything.
Rejected(result) ==
    Outcome(result, channels, commitment_txs, db_channels, db_commitments,
            db_payments)

\* A call of a ledger operation.  The ChannelManager exists, and the API
\* server that calls it is started, once main() has completed its startup.
Apply(op, id, amount, sequence, out) ==
    /\ startup.pc = "serving"
    /\ channels' = out.channels
    /\ commitment_txs' = out.commitment_txs
    /\ db_channels' = out.db_channels
    /\ db_commitments' = out.db_commitments
    /\ db_payments' = out.db_payments
    /\ Respond(op, id, amount, sequence, out.result)
    /\ UNCHANGED <<overflow_checks, node>>

\* ---------------------------------------------------------------- open_channel
\* Uuid::new_v4(): an id no channel has.
FreshIds == ChannelIds \ (DOMAIN channels \cup DOMAIN db_channels)
NewChannelId == CHOOSE id \in FreshIds : \A other \in FreshIds : id <= other

\* peer_node_id.starts_with("12D3"), hex::decode(..) and PublicKey::from_slice(..)
\* on the peer identifiers the model draws.
StartsWith12D3(peer_node_id) == peer_node_id = "12D3KooWpeer"
HexDecodes(peer_node_id) == peer_node_id \in {"02hexpubkey", "abcd"}
IsPublicKey(peer_node_id) == peer_node_id = "02hexpubkey"

\* A split that gives the opener the whole capacity.
NewChannelAllMine(capacity) ==
    [capacity        |-> capacity,
     my_balance      |-> capacity,
     peer_balance    |-> 0,
     sequence_number |-> 0,
     is_open         |-> TRUE]

\* The PaymentChannel open_channel builds.
NewChannel(capacity) ==
    [capacity        |-> capacity,
     my_balance      |-> capacity \div 2,
     peer_balance    |-> capacity \div 2,
     sequence_number |-> 0,
     is_open         |-> TRUE]

\* An open that inserts the channel into the table before it is stored.
OpenChannelInsertFirst(id, peer_node_id, capacity, fail) ==
    IF ~StartsWith12D3(peer_node_id) /\ ~HexDecodes(peer_node_id)
    THEN Rejected(InvalidHex)
    ELSE IF ~StartsWith12D3(peer_node_id) /\ ~IsPublicKey(peer_node_id)
    THEN Rejected(InvalidPublicKey)
    ELSE LET channel == NewChannel(capacity)
             mem == (id :> channel) @@ channels
             ctx == (id :> <<>>) @@ commitment_txs
         IN  IF fail = "save_channel"
             THEN Outcome(StoreError, mem, ctx, db_channels, db_commitments,
                          db_payments)
             ELSE Outcome(Ok, mem, ctx,
                          (id :> ChannelRow(channel)) @@ db_channels,
                          db_commitments, db_payments)

OpenChannel(id, peer_node_id, capacity, fail) ==
    IF ~StartsWith12D3(peer_node_id) /\ ~HexDecodes(peer_node_id)
    THEN Rejected(InvalidHex)
    ELSE IF ~StartsWith12D3(peer_node_id) /\ ~IsPublicKey(peer_node_id)
    THEN Rejected(InvalidPublicKey)
    ELSE IF fail = "save_channel"
    THEN Rejected(StoreError)
    ELSE LET channel == NewChannel(capacity)
         IN Outcome(Ok,
                    (id :> channel) @@ channels,
                    (id :> <<>>) @@ commitment_txs,
                    (id :> ChannelRow(channel)) @@ db_channels,
                    db_commitments, db_payments)

Open(peer_node_id, capacity) ==
    /\ ops < MaxOps
    /\ FreshIds # {}
    /\ \E fail \in Reached(OpenChannel(NewChannelId, peer_node_id, capacity,
                                       "none").result, {"save_channel"}) :
          Apply("open", NewChannelId, NoArg, NoArg,
                OpenChannel(NewChannelId, peer_node_id, capacity, fail))

\* ---------------------------------------------------------------- send_payment
\* The balance check off by one: `<=` for `<`.
SendRejectsAmountInclusive(channel, amount) == channel.my_balance <= amount

\* `if channel.my_balance < amount`
SendRejectsAmount(channel, amount) == channel.my_balance < amount

\* The is_open check left out.
RejectsClosedNever(channel) == FALSE

\* `if !channel.is_open`
RejectsClosed(channel) == ~channel.is_open

\* Lines 167-169: my_balance -= amount; peer_balance += amount;
\* sequence_number += 1.  With overflow checks each statement panics instead
\* of wrapping, leaving the statements before it applied.
SendUpdate(channel, amount) ==
    LET c1 == [channel EXCEPT !.my_balance = WrappingSub(@, amount)]
        c2 == [c1 EXCEPT !.peer_balance = WrappingAdd(@, amount)]
        c3 == [c2 EXCEPT !.sequence_number = WrappingAdd(@, 1)]
    IN  IF overflow_checks /\ channel.my_balance < amount
        THEN [panicked |-> TRUE, channel |-> channel]
        ELSE IF overflow_checks /\ channel.peer_balance + amount >= Word
        THEN [panicked |-> TRUE, channel |-> c1]
        ELSE IF overflow_checks /\ channel.sequence_number + 1 >= Word
        THEN [panicked |-> TRUE, channel |-> c2]
        ELSE [panicked |-> FALSE, channel |-> c3]

\* create_commitment_transaction
CreateCommitmentTransaction(id, channel) ==
    [channel_id   |-> id,
     sequence     |-> channel.sequence_number,
     my_balance   |-> channel.my_balance,
     peer_balance |-> channel.peer_balance]

OutgoingPayment(id, amount, snapshot) ==
    [channel_id |-> id, amount |-> amount, direction |-> "outgoing",
     sequence |-> snapshot.sequence_number, is_offline |-> TRUE]

SendPayment(id, amount, fail) ==
    IF id \notin DOMAIN channels THEN Rejected(ChannelNotFound)
    ELSE IF RejectsClosed(channels[id]) THEN Rejected(ChannelNotOpen)
    ELSE IF SendRejectsAmount(channels[id], amount)
    THEN Rejected(InsufficientBalance)
    ELSE
    LET upd == SendUpdate(channels[id], amount)
        snapshot == upd.channel
        mem == [channels EXCEPT ![id] = snapshot]
        commitment == CreateCommitmentTransaction(id, snapshot)
        dbc == Append(db_commitments, CommitmentRow(commitment))
        ctx == [commitment_txs EXCEPT ![id] = Append(@, commitment)]
        dbp == Append(db_payments,
                      PaymentRow(OutgoingPayment(id, amount, snapshot)))
    IN  IF upd.panicked
        THEN Outcome(Panic, mem, commitment_txs, db_channels, db_commitments,
                     db_payments)
        ELSE IF fail = "save_commitment_transaction"
        THEN Outcome(StoreError, mem, commitment_txs, db_channels,
                     db_commitments, db_payments)
        ELSE IF fail = "save_payment"
        THEN Outcome(StoreError, mem, ctx, db_channels, dbc, db_payments)
        ELSE IF fail = "update_channel"
        THEN Outcome(StoreError, mem, ctx, db_channels, dbc, dbp)
        ELSE Outcome(Ok, mem, ctx, UpdateChannel(db_channels, id, mem[id]),
                     dbc, dbp)

Pay(id, amount) ==
    /\ ops < MaxOps
    /\ \E fail \in Reached(SendPayment(id, amount, "none").result,
                           {"save_commitment_transaction", "save_payment",
                            "update_channel"}) :
          Apply("pay", id, amount, NoArg, SendPayment(id, amount, fail))

\* -------------------------------------------------------------- receive_payment
\* Lines 226-228: peer_balance -= amount; my_balance += amount;
\* sequence_number = sequence.
ReceiveUpdate(channel, amount, sequence) ==
    LET c1 == [channel EXCEPT !.peer_balance = WrappingSub(@, amount)]
        c2 == [c1 EXCEPT !.my_balance = WrappingAdd(@, amount)]
        c3 == [c2 EXCEPT !.sequence_number = sequence]
    IN  IF overflow_checks /\ channel.peer_balance < amount
        THEN [panicked |-> TRUE, channel |-> channel]
        ELSE IF overflow_checks /\ channel.my_balance + amount >= Word
        THEN [panicked |-> TRUE, channel |-> c1]
        ELSE [panicked |-> FALSE, channel |-> c3]

IncomingPayment(id, amount, sequence) ==
    [channel_id |-> id, amount |-> amount, direction |-> "incoming",
     sequence |-> sequence, is_offline |-> TRUE]

ReceivePayment(id, amount, sequence, fail) ==
    IF id \notin DOMAIN channels THEN Rejected(ChannelNotFound)
    ELSE IF RejectsClosed(channels[id]) THEN Rejected(ChannelNotOpen)
    ELSE
    LET upd == ReceiveUpdate(channels[id], amount, sequence)
        mem == [channels EXCEPT ![id] = upd.channel]
        dbp == Append(db_payments,
                      PaymentRow(IncomingPayment(id, amount, sequence)))
    IN  IF upd.panicked
        THEN Outcome(Panic, mem, commitment_txs, db_channels, db_commitments,
                     db_payments)
        ELSE IF fail = "save_payment"
        THEN Outcome(StoreError, mem, commitment_txs, db_channels,
                     db_commitments, db_payments)
        ELSE IF fail = "update_channel"
        THEN Outcome(StoreError, mem, commitment_txs, db_channels,
                     db_commitments, dbp)
        ELSE Outcome(Ok, mem, commitment_txs,
                     UpdateChannel(db_channels, id, mem[id]),
                     db_commitments, dbp)

Receive(id, amount, sequence) ==
    /\ ops < MaxOps
    /\ \E fail \in Reached(ReceivePayment(id, amount, sequence, "none").result,
                           {"save_payment", "update_channel"}) :
          Apply("receive", id, amount, sequence,
                ReceivePayment(id, amount, sequence, fail))

\* ---------------------------------------------------------------- close_channel
\* `channel.is_open = false`
Settle(channel) == [channel EXCEPT !.is_open = FALSE]

\* A close that deletes the channel from the table and the store.
CloseChannelRemoving(id, fail) ==
    IF id \notin DOMAIN channels THEN Rejected(ChannelNotFound)
    ELSE
    LET rest == DOMAIN channels \ {id}
    IN  Outcome(Ok,
                [i \in rest |-> channels[i]],
                [i \in rest |-> commitment_txs[i]],
                [i \in DOMAIN db_channels \ {id} |-> db_channels[i]],
                db_commitments, db_payments)

\* A close that answers Ok for a channel it does not know.
CloseChannelLenient(id, fail) ==
    IF id \notin DOMAIN channels THEN Rejected(Ok)
    ELSE
    LET mem == [channels EXCEPT ![id] = Settle(@)]
    IN  IF fail = "update_channel"
        THEN Outcome(StoreError, mem, commitment_txs, db_channels,
                     db_commitments, db_payments)
        ELSE Outcome(Ok, mem, commitment_txs,
                     UpdateChannel(db_channels, id, mem[id]),
                     db_commitments, db_payments)

CloseChannel(id, fail) ==
    IF id \notin DOMAIN channels THEN Rejected(ChannelNotFound)
    ELSE
    LET mem == [channels EXCEPT ![id] = Settle(@)]
    IN  IF fail = "update_channel"
        THEN Outcome(StoreError, mem, commitment_txs, db_channels,
                     db_commitments, db_payments)
        ELSE Outcome(Ok, mem, commitment_txs,
                     UpdateChannel(db_channels, id, mem[id]),
                     db_commitments, db_payments)

Close(id) ==
    /\ ops < MaxOps
    /\ \E fail \in Reached(CloseChannel(id, "none").result, {"update_channel"}) :
          Apply("close", id, NoArg, NoArg, CloseChannel(id, fail))

\* ------------------------------------------------------------------- restart
\* The process ends and starts again: ChannelManager::new on empty maps,
\* then load_channels.
\* A load that fills the channel table and leaves the commitment table
\* empty.
LoadChannelsWithoutCommitments ==
    Outcome(Ok,
            [id \in DOMAIN db_channels |-> LoadChannel(db_channels[id])],
            <<>>, db_channels, db_commitments, db_payments)

LoadChannels ==
    Outcome(Ok,
            [id \in DOMAIN db_channels |-> LoadChannel(db_channels[id])],
            [id \in DOMAIN db_channels |->
                GetChannelCommitments(db_commitments, id)],
            db_channels, db_commitments, db_payments)

Restart ==
    /\ startup.pc = "serving"
    /\ ops < MaxOps
    /\ ops' = ops + 1
    /\ channels' = LoadChannels.channels
    /\ commitment_txs' = LoadChannels.commitment_txs
    /\ last' = Call("restart", NoArg, NoArg, NoArg, Ok)
    /\ UNCHANGED <<overflow_checks, db_channels, db_commitments, db_payments,
                   clean, node>>

Next ==
    \/ \E p \in PeerNodeIds, cap \in Capacities : Open(p, cap)
    \/ \E id \in ChannelIds, a \in Amounts : Pay(id, a)
    \/ \E id \in ChannelIds, a \in Amounts, sq \in SequenceInputs :
          Receive(id, a, sq)
    \/ \E id \in ChannelIds : Close(id)
    \/ Restart

Spec == Init /\ [][Next]_vars

\* ------------------------------------------------------- gossip (p2p.rs)
\* The gossipsub messages the event loop is given: bytes that do not
\* decode to a P2PMessage, and Payment and ChannelClose messages naming the
\* first channel id (a channel the node knows once it has opened one).
\* Whether a message's signature is its sender's is carried as
\* signature_valid.
Undecodable ==
    [kind |-> "none", decodes |-> FALSE, channel_id |-> NoArg,
     amount |-> NoArg, sequence |-> NoArg, signature_valid |-> FALSE]

GossipMessages ==
    {Undecodable} \cup
    [kind : {"Payment", "ChannelClose"}, decodes : {TRUE},
     channel_id : {1}, amount : {1}, sequence : {1, 2},
     signature_valid : BOOLEAN]

\* `let (message_sender, _) = mpsc::unbounded_channel();`: the receiving
\* half is dropped where the channel is made.
ReceiverDropped == TRUE

\* UnboundedSender::send: Err, the message dropped, once the receiver is
\* gone; handle_behaviour_event ignores the result (`let _ =`).
Send(queue, message) ==
    IF ReceiverDropped THEN queue ELSE Append(queue, message)

\* An event loop that gives every decoded Payment to receive_payment.
GossipEffectReceives(message) ==
    IF message.decodes /\ message.kind = "Payment"
    THEN ReceivePayment(message.channel_id, message.amount, message.sequence,
                        "none")
    ELSE Rejected("ignored")

\* What handle_behaviour_event does to the ledger: P2PNode holds no
\* ChannelManager and calls none of its operations.
GossipEffect(message) ==
    Rejected(IF message.decodes THEN "decoded" ELSE "ignored")

\* SwarmEvent::Behaviour(Gossipsub(Message { .. })) in start_listening's loop.
HandleGossipMessage(message) ==
    LET out == GossipEffect(message)
    IN  /\ startup.pc = "serving"
        /\ inbound' = message
        /\ message_queue' = IF message.decodes
                            THEN Send(message_queue, message)
                            ELSE message_queue
        /\ channels' = out.channels
        /\ commitment_txs' = out.commitment_txs
        /\ db_channels' = out.db_channels
        /\ db_commitments' = out.db_commitments
        /\ db_payments' = out.db_payments
        /\ last' = Call("gossip", message.channel_id, message.amount,
                        message.sequence, out.result)
        /\ UNCHANGED <<overflow_checks, ops, clean, startup, rwlock,
                       requests, published,
                   crypto, peers, connections>>

GossipEvent == \E message \in GossipMessages : HandleGossipMessage(message)

\* The running node: the facade's operations and the overlay's event loop.
\* The loop takes the next swarm event whenever there is one.
NextGossip ==
    \/ \E p \in PeerNodeIds, cap \in Capacities : Open(p, cap)
    \/ \E id \in ChannelIds, a \in Amounts : Pay(id, a)
    \/ \E id \in ChannelIds : Close(id)
    \/ GossipEvent

SpecGossip == Init /\ [][NextGossip]_vars /\ WF_vars(GossipEvent)

\* ------------------------------------------------------ startup (main.rs)
\* main() before its first step.
Starting == [pc |-> StartupSteps[1], done |-> <<>>]

\* Position of a step in main().
StepIndex(step) == CHOOSE i \in 1 .. Len(StartupSteps) : StartupSteps[i] = step

\* main() after the step at startup.pc returned ok when it goes on whatever
\* the step returned.
AfterStepIgnoringError(state, ok) ==
    LET done == IF ok THEN Append(state.done, state.pc) ELSE state.done
        i == StepIndex(state.pc)
    IN  IF i = Len(StartupSteps)
        THEN [pc |-> "serving", done |-> done]
        ELSE [pc |-> StartupSteps[i + 1], done |-> done]

\* main() after the step at startup.pc returned: `return Err(e)` (or `?`)
\* on an error, the next step otherwise, and after the last one the API
\* server and the select!.
AfterStep(state, ok) ==
    IF ~ok
    THEN [pc |-> "exited", done |-> state.done]
    ELSE AfterStepIgnoringError(state, TRUE)

\* One step of main()'s startup.  ChannelManager::new runs load_channels.
StartupStep(ok) ==
    /\ startup.pc \notin {"serving", "exited"}
    /\ startup' = AfterStep(startup, ok)
    /\ IF startup.pc = "ChannelManager::new" /\ ok
       THEN /\ channels' = LoadChannels.channels
            /\ commitment_txs' = LoadChannels.commitment_txs
       ELSE UNCHANGED <<channels, commitment_txs>>
    /\ UNCHANGED <<overflow_checks, db_channels, db_commitments, db_payments,
                   last, ops, clean, rwlock, requests, published,
                   message_queue, inbound,
                   crypto, peers, connections>>

\* ctrl_c at the select!: main() returns and the process ends.
Shutdown ==
    /\ startup.pc = "serving"
    /\ startup' = [startup EXCEPT !.pc = "exited"]
    /\ UNCHANGED <<overflow_checks, channels, commitment_txs, db_channels,
                   db_commitments, db_payments, last, ops, clean, rwlock,
                   requests, published, message_queue, inbound,
                   crypto, peers, connections>>

\* The program is run again: a new process, its memory empty, over the
\* store the last one left.
Start ==
    /\ startup.pc = "exited"
    /\ ops < MaxOps
    /\ ops' = ops + 1
    /\ startup' = Starting
    /\ channels' = <<>>
    /\ commitment_txs' = <<>>
    /\ last' = Call("start", NoArg, NoArg, NoArg, Ok)
    /\ UNCHANGED <<overflow_checks, db_channels, db_commitments, db_payments,
                   clean, rwlock, requests, published, message_queue,
                   inbound,
                   crypto, peers, connections>>

InitStartup ==
    /\ overflow_checks \in BOOLEAN
    /\ channels = <<>>
    /\ commitment_txs = <<>>
    /\ db_channels = <<>>
    /\ db_commitments = <<>>
    /\ db_payments = <<>>
    /\ last = Call("start", NoArg, NoArg, NoArg, Ok)
    /\ ops = 0
    /\ clean = TRUE
    /\ startup = Starting
    /\ rwlock = Unlocked
    /\ requests = [r \in Requests |-> Idle]
    /\ published = <<>>
    /\ message_queue = <<>>
    /\ inbound = NoMessage
    /\ crypto = KeyNotFollowed
    /\ peers = NoPeers
    /\ connections = NoConnections

NextStartup ==
    \/ \E ok \in BOOLEAN : StartupStep(ok)
    \/ \E p \in PeerNodeIds, cap \in Capacities : Open(p, cap)
    \/ \E id \in ChannelIds, a \in Amounts : Pay(id, a)
    \/ \E id \in ChannelIds : Close(id)
    \/ Shutdown
    \/ Start

SpecStartup == InitStartup /\ [][NextStartup]_vars

\* ------------------------------------------------- the facade (api.rs)
\* Every handler of a mutating route takes channel_manager.write() first
\* and holds the guard until it returns; get_channels takes read().  The
\* handler runs from one await to the next in one step: the awaits are the
\* lock and the store calls.

\* A lock that grants write() whoever holds it.
WriteGrantedAlways(lock) == TRUE

\* tokio's RwLock: write() is granted when nobody holds the lock.  (A reader
\* here holds it for a single step, so only a writer is ever seen holding.)
WriteGranted(lock) == lock = Unlocked

\* read() is granted when no writer holds the lock.
ReadGranted(lock) == lock = Unlocked

\* The requests the clients send: opens with a peer id that is accepted and
\* one that is not, pays and closes of the first channel id, and lists.
NewRequests ==
    {[Idle EXCEPT !.pc = "waiting", !.kind = "open",
                  !.peer_node_id = p, !.capacity = cap] :
        p \in {"12D3KooWpeer", "not-hex"}, cap \in Capacities}
    \cup {[Idle EXCEPT !.pc = "waiting", !.kind = "pay",
                       !.channel_id = 1, !.amount = a] : a \in Amounts}
    \cup {[Idle EXCEPT !.pc = "waiting", !.kind = "close", !.channel_id = 1],
          [Idle EXCEPT !.pc = "waiting", !.kind = "list"]}

\* The handler is between its first check and its return.
InHandler(request) == request.pc \notin {"idle", "waiting", "done"}

\* The handler returns `result`.
Done(request, result) == [request EXCEPT !.pc = "done", !.result = result]

\* A handler's position after a step, and the ledger as the step leaves it.
At(request, ch, ctx, dbch, dbc, dbp) ==
    [request |-> request,
     out |-> Outcome("pending", ch, ctx, dbch, dbc, dbp)]

Stay(request) ==
    At(request, channels, commitment_txs, db_channels, db_commitments,
       db_payments)

\* The store calls a handler makes, and the whole handler as one call.
StoreCalls(request) ==
    IF request.kind = "open" THEN {"save_channel"}
    ELSE IF request.kind = "pay"
    THEN {"save_commitment_transaction", "save_payment", "update_channel"}
    ELSE IF request.kind = "close" THEN {"update_channel"}
    ELSE {}

Whole(request, fail) ==
    IF request.kind = "open"
    THEN OpenChannel(NewChannelId, request.peer_node_id, request.capacity,
                     fail)
    ELSE IF request.kind = "pay"
    THEN SendPayment(request.channel_id, request.amount, fail)
    ELSE IF request.kind = "close"
    THEN CloseChannel(request.channel_id, fail)
    ELSE Rejected(Ok)

\* open_channel up to save_channel(..).await.
EnterOpen(request) ==
    LET p == request.peer_node_id
        req == [request EXCEPT !.channel_id = NewChannelId]
    IN  IF ~StartsWith12D3(p) /\ ~HexDecodes(p)
        THEN Stay(Done(req, InvalidHex))
        ELSE IF ~StartsWith12D3(p) /\ ~IsPublicKey(p)
        THEN Stay(Done(req, InvalidPublicKey))
        ELSE Stay([req EXCEPT !.pc = "save_channel"])

\* send_payment up to save_commitment_transaction(..).await.
EnterPay(request) ==
    LET id == request.channel_id
    IN  IF id \notin DOMAIN channels
        THEN Stay(Done(request, ChannelNotFound))
        ELSE IF RejectsClosed(channels[id])
        THEN Stay(Done(request, ChannelNotOpen))
        ELSE IF SendRejectsAmount(channels[id], request.amount)
        THEN Stay(Done(request, InsufficientBalance))
        ELSE
        LET upd == SendUpdate(channels[id], request.amount)
            mem == [channels EXCEPT ![id] = upd.channel]
        IN  IF upd.panicked
            THEN At(Done(request, Panic), mem, commitment_txs, db_channels,
                    db_commitments, db_payments)
            ELSE At([request EXCEPT !.pc = "save_commitment_transaction",
                                    !.channel_snapshot = upd.channel],
                    mem, commitment_txs, db_channels, db_commitments,
                    db_payments)

\* close_channel up to update_channel(..).await.
EnterClose(request) ==
    LET id == request.channel_id
    IN  IF id \notin DOMAIN channels
        THEN Stay(Done(request, ChannelNotFound))
        ELSE At([request EXCEPT !.pc = "update_channel"],
                [channels EXCEPT ![id] = Settle(@)], commitment_txs,
                db_channels, db_commitments, db_payments)

\* From one store call's await to the next, or to the return.
StepOpen(request) ==
    LET id == request.channel_id
        channel == NewChannel(request.capacity)
    IN  At(Done(request, Ok),
           (id :> channel) @@ channels,
           (id :> <<>>) @@ commitment_txs,
           (id :> ChannelRow(channel)) @@ db_channels,
           db_commitments, db_payments)

StepPay(request) ==
    LET id == request.channel_id
        snapshot == request.channel_snapshot
        commitment == CreateCommitmentTransaction(id, snapshot)
    IN  IF request.pc = "save_commitment_transaction"
        THEN At([request EXCEPT !.pc = "save_payment"], channels,
                [commitment_txs EXCEPT ![id] = Append(@, commitment)],
                db_channels,
                Append(db_commitments, CommitmentRow(commitment)),
                db_payments)
        ELSE IF request.pc = "save_payment"
        THEN At([request EXCEPT !.pc = "update_channel"], channels,
                commitment_txs, db_channels, db_commitments,
                Append(db_payments,
                       PaymentRow(OutgoingPayment(id, request.amount,
                                                  snapshot))))
        ELSE At(Done(request, Ok), channels, commitment_txs,
                UpdateChannel(db_channels, id, channels[id]),
                db_commitments, db_payments)

StepClose(request) ==
    At(Done(request, Ok), channels, commitment_txs,
       UpdateChannel(db_channels, request.channel_id,
                     channels[request.channel_id]),
       db_commitments, db_payments)

\* Request r moves on; when its handler returns, the guard is dropped, the
\* response sent and the request over.
Proceed(r, at) ==
    /\ requests' = [requests EXCEPT
                       ![r] = IF at.request.pc = "done" THEN Idle
                              ELSE at.request]
    /\ channels' = at.out.channels
    /\ commitment_txs' = at.out.commitment_txs
    /\ db_channels' = at.out.db_channels
    /\ db_commitments' = at.out.db_commitments
    /\ db_payments' = at.out.db_payments
    /\ IF at.request.pc = "done"
       THEN /\ rwlock' = Unlocked
            /\ last' = Call(at.request.kind, at.request.channel_id,
                            at.request.amount, NoArg, at.request.result)
            /\ clean' = (clean /\ at.request.result \notin {StoreError, Panic})
       ELSE /\ rwlock' = r
            /\ UNCHANGED <<last, clean>>
    /\ UNCHANGED <<overflow_checks, ops, startup, published, message_queue,
                   inbound,
                   crypto, peers, connections>>

\* A client sends a request: axum spawns its handler, which asks for the lock.
Issue(r, request) ==
    /\ startup.pc = "serving"
    /\ requests[r].pc = "idle"
    /\ ops < MaxOps
    /\ ops' = ops + 1
    /\ requests' = [requests EXCEPT ![r] = request]
    /\ UNCHANGED <<overflow_checks, channels, commitment_txs, db_channels,
                   db_commitments, db_payments, last, clean, startup, rwlock,
                   published, message_queue, inbound,
                   crypto, peers, connections>>

\* The lock is granted and the handler runs to its first store call.  The
\* store call that will be rejected, and what the handler run as one call
\* from here would leave, are noted in the request.
Enter(r) ==
    /\ requests[r].pc = "waiting"
    /\ requests[r].kind = "open" => FreshIds # {}
    /\ IF requests[r].kind = "list"
       THEN ReadGranted(rwlock)
       ELSE WriteGranted(rwlock)
    /\ \E fail \in Reached(Whole(requests[r], "none").result,
                           StoreCalls(requests[r])) :
          LET request == [requests[r] EXCEPT
                              !.fail = fail,
                              !.expected = Whole(requests[r], fail)]
          IN  Proceed(r, IF request.kind = "open" THEN EnterOpen(request)
                         ELSE IF request.kind = "pay" THEN EnterPay(request)
                         ELSE IF request.kind = "close"
                         THEN EnterClose(request)
                         ELSE Stay(Done(request, Ok)))

\* A store call of the handler completes, or is rejected and `?` returns.
Step(r) ==
    /\ InHandler(requests[r])
    /\ Proceed(r, IF requests[r].fail = requests[r].pc
                  THEN Stay(Done(requests[r], StoreError))
                  ELSE IF requests[r].kind = "open"
                  THEN StepOpen(requests[r])
                  ELSE IF requests[r].kind = "pay"
                  THEN StepPay(requests[r])
                  ELSE StepClose(requests[r]))

\* ctrl_c while requests are in flight: main() returns, the handlers are
\* dropped at the await they are at, and the program is started again over
\* the store as it is.
ShutdownAndRestart ==
    /\ startup.pc = "serving"
    /\ ops < MaxOps
    /\ ops' = ops + 1
    /\ requests' = [r \in Requests |-> Idle]
    /\ rwlock' = Unlocked
    /\ channels' = LoadChannels.channels
    /\ commitment_txs' = LoadChannels.commitment_txs
    /\ last' = Call("restart", NoArg, NoArg, NoArg, Ok)
    /\ UNCHANGED <<overflow_checks, db_channels, db_commitments, db_payments,
                   clean, startup, published, message_queue, inbound,
                   crypto, peers, connections>>

NextConcurrent ==
    \/ \E r \in Requests, request \in NewRequests : Issue(r, request)
    \/ \E r \in Requests : Enter(r)
    \/ \E r \in Requests : Step(r)
    \/ ShutdownAndRestart

SpecConcurrent == Init /\ [][NextConcurrent]_vars

\* ----------------------------------------------- responses (api.rs)
\* The status the facade's send_payment, open_channel and close_channel
\* answer with: `Ok(..)` is 200, every `Err(e)` is StatusCode::BAD_REQUEST
\* with an empty body (the error text goes to stderr only).
StatusCode(result) == IF result = Ok THEN 200 ELSE 400

\* ================================================================ crypto.rs
\* KeyManager and the two places of channel.rs that call it, as functions
\* of their inputs.  Secret keys, byte strings and uuids are drawn from
\* small sets.  SHA-256 is taken as injective and ECDSA as an ideal
\* scheme: a signature is valid for exactly the digest it was made over
\* and the public key of the secret key that made it.
SecretKeys == 1 .. MaxKeys
Bytes == {0, 1}
Messages == UNION {[1 .. n -> Bytes] : n \in 0 .. MaxLen}

\* Uuid::new_v4().to_string().replace("-", ""): 32 hex digits, of which
\* open_channel keeps the first 20.
Uuids == [first20 : {"0a", "0b"}, rest : {"0c", "0d"}]

\* Keypair::from_secret_key(..).public_key()
PublicKey(private_key) == [point |-> private_key]

\* KeyManager::new, with the secret key the OsRng gave it.
KeyManager(private_key) ==
    [private_key |-> private_key, public_key |-> PublicKey(private_key)]

\* Sha256::new(); update(bytes); finalize(): 32 bytes.
Sha256(bytes) == [len |-> 32, of |-> bytes]

\* Message::from_digest_slice(&hash) is Ok for a slice of 32 bytes.
FromDigestSlice(hash) == hash.len = 32

\* secp.sign_ecdsa(&message, &private_key)
SignEcdsa(digest, private_key) == [digest |-> digest, signer |-> private_key]

\* A verification that does not look at the digest.
VerifyEcdsaAnyDigest(digest, signature, pubkey) ==
    PublicKey(signature.signer) = pubkey

\* secp.verify_ecdsa(&message, signature, pubkey).is_ok()
VerifyEcdsa(digest, signature, pubkey) ==
    /\ signature.digest = digest
    /\ PublicKey(signature.signer) = pubkey

NoSignature == SignEcdsa(Sha256(<<>>), 0)

\* sign_message: Err when the digest is refused, else the signature.
SignMessage(key_manager, message) ==
    LET hash == Sha256(message)
    IN  IF FromDigestSlice(hash)
        THEN [ok |-> TRUE,
              signature |-> SignEcdsa(hash, key_manager.private_key)]
        ELSE [ok |-> FALSE, signature |-> NoSignature]

\* verify_signature: a bool, false when the digest is refused.
VerifySignature(message, signature, pubkey) ==
    LET hash == Sha256(message)
    IN  IF FromDigestSlice(hash)
        THEN VerifyEcdsa(hash, signature, pubkey)
        ELSE FALSE

\* Signature::serialize_compact and hex::encode.
SerializeCompact(signature) == <<signature.digest, signature.signer>>
HexEncode(bytes) == [hex |-> bytes]

\* Address::p2wsh(&script, Network::Regtest).to_string()
P2wsh(script) == [hrp |-> "bcrt1q", program |-> Sha256(script)]

\* create_multisig_address: the script pushes this node's key, then the
\* other key.
CreateMultisigAddress(key_manager, other_pubkey) ==
    P2wsh(<<"OP_PUSHNUM_2", key_manager.public_key, other_pubkey,
            "OP_PUSHNUM_2", "OP_CHECKMULTISIG">>)

\* PublicKey::from_slice(hex::decode(peer_node_id)) of the one identifier
\* of PeerNodeIds that is a public key: the key of the last key pair.
PeerPublicKey(peer_node_id) == PublicKey(MaxKeys)

\* open_channel, lines 92-125: the multisig address of the new channel.
MultisigAddress(key_manager, peer_node_id, uuid) ==
    IF StartsWith12D3(peer_node_id)
    THEN [result |-> Ok,
          address |-> [hrp |-> "bcrt1q",
                       program |-> Sha256(<<"dummy", uuid.first20>>)]]
    ELSE IF ~HexDecodes(peer_node_id)
    THEN [result |-> InvalidHex, address |-> P2wsh(<<>>)]
    ELSE IF ~IsPublicKey(peer_node_id)
    THEN [result |-> InvalidPublicKey, address |-> P2wsh(<<>>)]
    ELSE [result |-> Ok,
          address |-> CreateMultisigAddress(key_manager,
                                            PeerPublicKey(peer_node_id))]

\* create_commitment_transaction, lines 256-265: the bytes signed and the
\* signature kept with the snapshot.
RawTx(funding_txid, channel) ==
    [version |-> 2, txid |-> funding_txid, my_amount |-> channel.my_balance,
     peer_amount |-> channel.peer_balance,
     sequence |-> channel.sequence_number]

SignedCommitmentTransaction(key_manager, id, funding_txid, channel) ==
    LET raw_tx == RawTx(funding_txid, channel)
        signed == SignMessage(key_manager, raw_tx)
    IN  [ok |-> signed.ok,
         commitment |->
            [raw_tx |-> raw_tx,
             signature |-> HexEncode(SerializeCompact(signed.signature))]
            @@ CreateCommitmentTransaction(id, channel)]

\* The calls below are made on a KeyManager alone: no ledger, no node.
ledger_and_node ==
    <<overflow_checks, channels, commitment_txs, db_channels, db_commitments,
      db_payments, last, ops, clean, startup, rwlock, requests, published,
      message_queue, inbound, peers, connections>>

\* A process starts: KeyManager::new draws a secret key.  A signature in
\* hand (from an earlier run or another node) stays in hand.
KeyManagerNew ==
    /\ \E k \in SecretKeys :
          crypto' = [key_manager |-> KeyManager(k), held |-> crypto.held,
                     call |-> [op |-> "new"]]
    /\ UNCHANGED ledger_and_node

\* sign_message(message): the signature is kept in hand, with the bytes
\* and the secret key it was made with.
Sign ==
    /\ \E message \in Messages :
          LET signed == SignMessage(crypto.key_manager, message)
          IN  crypto' = [crypto EXCEPT
                           !.held = IF signed.ok
                                    THEN [message |-> message,
                                          signer |->
                                             crypto.key_manager.private_key,
                                          signature |-> signed.signature]
                                    ELSE @,
                           !.call = [op |-> "sign_message", ok |-> signed.ok]]
    /\ UNCHANGED ledger_and_node

\* verify_signature(message, the signature in hand, a public key).
Verify ==
    /\ \E message \in Messages, k \in SecretKeys :
          /\ crypto.held.signature # NoSignature
          /\ crypto' = [crypto EXCEPT
                          !.call = [op |-> "verify_signature",
                                    message |-> message,
                                    pubkey |-> PublicKey(k),
                                    result |-> VerifySignature(
                                                  message,
                                                  crypto.held.signature,
                                                  PublicKey(k))]]
    /\ UNCHANGED ledger_and_node

\* create_multisig_address(the public key of another key pair).
Derive ==
    /\ \E other \in SecretKeys :
          crypto' = [crypto EXCEPT
                       !.call = [op |-> "create_multisig_address",
                                 other |-> other,
                                 repeats |-> /\ @.op = "create_multisig_address"
                                             /\ @.other = other,
                                 previous |-> IF @.op = "create_multisig_address"
                                              THEN @.address ELSE P2wsh(<<>>),
                                 address |-> CreateMultisigAddress(
                                                crypto.key_manager,
                                                PublicKey(other))]]
    /\ UNCHANGED ledger_and_node

\* open_channel(peer_node_id, ..) up to the address of the new channel.
OpenAddress ==
    /\ \E peer_node_id \in PeerNodeIds, uuid \in Uuids :
          LET opened == MultisigAddress(crypto.key_manager, peer_node_id, uuid)
          IN  crypto' = [crypto EXCEPT
                           !.call = [op |-> "open_channel",
                                     peer_node_id |-> peer_node_id,
                                     result |-> opened.result,
                                     repeats |-> /\ @.op = "open_channel"
                                                 /\ @.peer_node_id = peer_node_id,
                                     previous |-> IF @.op = "open_channel"
                                                  THEN @.address ELSE P2wsh(<<>>),
                                     address |-> opened.address]]
    /\ UNCHANGED ledger_and_node

\* create_commitment_transaction on the channel a successful pay leaves:
\* a channel just opened with some capacity, after an amount was sent.
SignCommitment ==
    /\ \E capacity \in Capacities, amount \in Amounts, uuid \in Uuids :
          LET updated == SendUpdate(NewChannel(capacity), amount)
              signed == SignedCommitmentTransaction(crypto.key_manager, 1, uuid,
                                                    updated.channel)
          IN  /\ ~SendRejectsAmount(NewChannel(capacity), amount)
              /\ ~updated.panicked
              /\ crypto' = [crypto EXCEPT
                              !.call = [op |-> "create_commitment_transaction",
                                        ok |-> signed.ok,
                                        commitment |-> signed.commitment]]
    /\ UNCHANGED ledger_and_node

InitCrypto ==
    /\ overflow_checks \in BOOLEAN
    /\ channels = <<>>
    /\ commitment_txs = <<>>
    /\ db_channels = <<>>
    /\ db_commitments = <<>>
    /\ db_payments = <<>>
    /\ last = Call("start", NoArg, NoArg, NoArg, Ok)
    /\ ops = 0
    /\ clean = TRUE
    /\ startup = Serving
    /\ rwlock = Unlocked
    /\ requests = [r \in Requests |-> Idle]
    /\ published = <<>>
    /\ message_queue = <<>>
    /\ inbound = NoMessage
    /\ peers = NoPeers
    /\ connections = NoConnections
    /\ \E k \in SecretKeys :
          crypto = [key_manager |-> KeyManager(k),
                    held |-> [message |-> <<>>, signer |-> 0,
                              signature |-> NoSignature],
                    call |-> [op |-> "new"]]

NextCrypto ==
    \/ KeyManagerNew
    \/ Sign
    \/ Verify
    \/ Derive
    \/ OpenAddress
    \/ SignCommitment

SpecCrypto == InitCrypto /\ [][NextCrypto]_vars

\* =================================================================== p2p.rs
\* start_listening's loop with the swarm's connections followed.  The
\* swarm reports every connection it establishes or closes, one event for
\* each; a peer can have several connections at once.
\* PeerId::to_string
PeerIdToString(peer_id) == <<"12D3KooW", peer_id.multihash>>

\* HashMap::insert and HashMap::remove on the peers table.
Insert(table, key, value) ==
    [k \in DOMAIN table \cup {key} |-> IF k = key THEN value ELSE table[k]]

Remove(table, key) == [k \in DOMAIN table \ {key} |-> table[k]]

\* SwarmEvent::ConnectionEstablished { peer_id, .. }
ConnectionEstablished(peer_id) ==
    /\ startup.pc = "serving"
    /\ connections[peer_id] < MaxConnections
    /\ connections' = [connections EXCEPT ![peer_id] = @ + 1]
    /\ peers' = Insert(peers, peer_id, PeerIdToString(peer_id))
    /\ UNCHANGED <<overflow_checks, channels, commitment_txs, db_channels,
                   db_commitments, db_payments, last, ops, clean, startup,
                   rwlock, requests, published, message_queue, inbound,
                   crypto>>

\* SwarmEvent::ConnectionClosed { peer_id, .. }
ConnectionClosed(peer_id) ==
    /\ startup.pc = "serving"
    /\ connections[peer_id] > 0
    /\ connections' = [connections EXCEPT ![peer_id] = @ - 1]
    /\ peers' = Remove(peers, peer_id)
    /\ UNCHANGED <<overflow_checks, channels, commitment_txs, db_channels,
                   db_commitments, db_payments, last, ops, clean, startup,
                   rwlock, requests, published, message_queue, inbound,
                   crypto>>

\* get_connected_peers
GetConnectedPeers == {peers[peer_id] : peer_id \in DOMAIN peers}

NextP2P ==
    \/ \E peer_id \in PeerIds : ConnectionEstablished(peer_id)
    \/ \E peer_id \in PeerIds : ConnectionClosed(peer_id)
    \/ GossipEvent

SpecP2P == Init /\ [][NextP2P]_vars

\* ======================================================================
\* Properties
\* ======================================================================
Ledger == <<channels, commitment_txs, db_channels, db_commitments, db_payments>>

\* The last call was `op` on a channel the table held when it was made.
\* (No call removes a channel, so the table still holds it.)
LastOn(op) == last.op = op /\ last.channel_id \in DOMAIN channels

\* C1: in every reachable state of every channel (right after a successful
\* open with any capacity, and after every later pay or receive),
\* my_balance + peer_balance = capacity.
C1_BalancesSumToCapacity ==
    \A id \in DOMAIN channels :
        channels[id].my_balance + channels[id].peer_balance
            = channels[id].capacity

\* C2: each successful pay or receive leaves the channel's sequence_number
\* exactly one greater than it was before the call.
C2_SequenceStepsByOne ==
    [][(last'.op \in {"pay", "receive"} /\ last'.result = Ok)
         => channels'[last'.channel_id].sequence_number
              = channels[last'.channel_id].sequence_number + 1]_vars

\* C3: receive on a known open channel with sequence # sequence_number + 1
\* fails with a sequence conflict and leaves my_balance, peer_balance and
\* sequence_number of the channel unchanged.
SequenceConflict == "Sequence conflict"

C3_ReceiveRejectsSequenceGap ==
    [][(/\ last'.op = "receive"
        /\ last'.channel_id \in DOMAIN channels
        /\ channels[last'.channel_id].is_open
        /\ last'.sequence # channels[last'.channel_id].sequence_number + 1)
         => (/\ last'.result = SequenceConflict
             /\ channels'[last'.channel_id] = channels[last'.channel_id])]_vars

\* C4: no two commitment snapshots of a channel, in memory or in the store,
\* carry the same sequence number.
DistinctSequences(snapshots) ==
    \A i, j \in 1 .. Len(snapshots) :
        snapshots[i].sequence = snapshots[j].sequence => i = j

C4_SnapshotSequencesUnique ==
    \A id \in DOMAIN channels :
        /\ DistinctSequences(commitment_txs[id])
        /\ DistinctSequences(RowsOf(db_commitments, id))

\* C5: a pay that fails after its in-memory update (a rejected store write)
\* leaves the in-memory channel with the my_balance, peer_balance and
\* sequence_number it had before the pay.
C5_FailedPayRolledBack ==
    [][(last'.op = "pay" /\ last'.result = StoreError)
         => channels'[last'.channel_id] = channels[last'.channel_id]]_vars

\* C6: a receive or close whose store write fails returns an error and
\* leaves the in-memory channel exactly as it was before the call.
C6_FailedReceiveCloseRolledBack ==
    [][(last'.op \in {"receive", "close"} /\ last'.result = StoreError)
         => channels'[last'.channel_id] = channels[last'.channel_id]]_vars

\* C7: pay on a known channel with amount > my_balance fails, with
\* "Insufficient balance" when the channel is open (a closed channel is
\* rejected as closed first), and changes neither the channel nor the
\* commitment and payment tables, in memory or in the store; pay with
\* amount = my_balance is not rejected for insufficient balance.
C7_PayInsufficientFunds ==
    [][(last'.op = "pay" /\ last'.channel_id \in DOMAIN channels)
         => LET channel == channels[last'.channel_id]
            IN  /\ last'.amount > channel.my_balance
                     => /\ last'.result
                             = IF channel.is_open THEN InsufficientBalance
                                                  ELSE ChannelNotOpen
                        /\ UNCHANGED Ledger
                /\ last'.amount = channel.my_balance
                     => last'.result # InsufficientBalance]_vars

\* A pay of my_balance + 1 on an open channel was rejected.
C7_Witness ==
    /\ LastOn("pay")
    /\ last.result = InsufficientBalance
    /\ channels[last.channel_id].is_open
    /\ last.amount = channels[last.channel_id].my_balance + 1

\* C8: once a channel is closed, every pay or receive on it fails with
\* "Channel is not open" and changes nothing; and once a close has
\* succeeded (the channel is closed in memory and in the store), no later
\* call or restart changes the channel or its stored row again.
C8_ClosedIsFinal ==
    [][\A id \in DOMAIN channels :
          ~channels[id].is_open
            => /\ (last'.op \in {"pay", "receive"} /\ last'.channel_id = id)
                    => (last'.result = ChannelNotOpen /\ UNCHANGED Ledger)
               /\ (id \in DOMAIN db_channels /\ ~db_channels[id].is_open)
                    => /\ id \in DOMAIN channels'
                       /\ channels'[id] = channels[id]
                       /\ db_channels'[id] = db_channels[id]]_vars

\* A pay with an amount the balance covers was rejected on a channel that
\* a successful close had closed.
C8_Witness ==
    /\ LastOn("pay")
    /\ last.result = ChannelNotOpen
    /\ last.amount <= channels[last.channel_id].my_balance
    /\ ~db_channels[last.channel_id].is_open

\* C9: is_open is one-way: once it is false in the table it is never true
\* again, whatever calls, store failures and restarts follow.
C9_IsOpenOneWay ==
    [][\A id \in DOMAIN channels :
          ~channels[id].is_open
            => (id \in DOMAIN channels' /\ ~channels'[id].is_open)]_vars

\* C10: when no call so far ended in a store error or a panic, a restart
\* reloads, for every channel, the my_balance, peer_balance,
\* sequence_number and is_open the table held before the restart (and the
\* same set of channels).
C10_RestartRoundTrip ==
    [][(clean /\ last'.op = "restart") => channels' = channels]_vars

\* A restart reloaded a closed channel that had made a transfer.
C10_Witness ==
    /\ last.op = "restart"
    /\ clean
    /\ \E id \in DOMAIN channels :
          /\ channels[id].sequence_number > 0
          /\ ~channels[id].is_open

\* C11: every sequence transition creates a commitment snapshot: after a
\* successful pay or receive the channel's commitment list, in memory and
\* in the store, holds a snapshot whose sequence is the channel's new
\* sequence_number.
HasSnapshotAt(snapshots, sequence) ==
    \E i \in 1 .. Len(snapshots) : snapshots[i].sequence = sequence

C11_TransitionHasSnapshot ==
    (last.op \in {"pay", "receive"} /\ last.result = Ok)
      => LET id == last.channel_id
         IN  /\ HasSnapshotAt(commitment_txs[id],
                              channels[id].sequence_number)
             /\ HasSnapshotAt(GetChannelCommitments(db_commitments, id),
                              channels[id].sequence_number)

\* C12: whenever a channel has a balance-affecting event (a stored payment
\* record) and no call has ended in a store error or a panic, the stored
\* snapshot with the highest sequence number records the channel's current
\* my_balance, peer_balance and sequence_number.
IsLatestSnapshot(snapshots, snapshot) ==
    \A i \in 1 .. Len(snapshots) : snapshots[i].sequence <= snapshot.sequence

C12_LatestSnapshotIsChannelState ==
    \A id \in DOMAIN channels :
        (clean /\ RowsOf(db_payments, id) # <<>>)
          => LET snapshots == GetChannelCommitments(db_commitments, id)
             IN  \E i \in 1 .. Len(snapshots) :
                    /\ IsLatestSnapshot(snapshots, snapshots[i])
                    /\ snapshots[i].sequence = channels[id].sequence_number
                    /\ snapshots[i].my_balance = channels[id].my_balance
                    /\ snapshots[i].peer_balance = channels[id].peer_balance

\* C13: the local party has just paid from sequence n (its update at n + 1
\* is committed), and the peer, who paid from the same n, presents its
\* Payment with sequence n + 1 to receive: the receive fails with a sequence
\* conflict and the channel keeps the locally committed state.
C13_CollisionDetected ==
    [][(/\ last.op = "pay" /\ last.result = Ok
        /\ last'.op = "receive"
        /\ last'.channel_id = last.channel_id
        /\ last'.sequence = channels[last.channel_id].sequence_number)
         => (/\ last'.result = SequenceConflict
             /\ channels'[last.channel_id] = channels[last.channel_id])]_vars

\* C20: a successful pay of amount on a channel decreases my_balance by
\* exactly amount, increases peer_balance by exactly amount, increases
\* sequence_number by exactly 1, and the PaymentRecord it returns (the one
\* it stored last) has that amount, direction outgoing, is_offline true and
\* the channel's new sequence_number.
C20_PayEffect ==
    [][(last'.op = "pay" /\ last'.result = Ok)
         => LET id == last'.channel_id
                before == channels[id]
                after == channels'[id]
            IN  /\ before.is_open /\ last'.amount <= before.my_balance
                /\ after.my_balance = before.my_balance - last'.amount
                /\ after.peer_balance = before.peer_balance + last'.amount
                /\ after.sequence_number = before.sequence_number + 1
                /\ db_payments' # <<>>
                /\ db_payments'[Len(db_payments')]
                     = PaymentRow([channel_id |-> id,
                                   amount     |-> last'.amount,
                                   direction  |-> "outgoing",
                                   sequence   |-> after.sequence_number,
                                   is_offline |-> TRUE])]_vars

\* C18: after every successful open, pay or close the resulting event
\* (ChannelOpen, Payment or ChannelClose of that channel) has been handed
\* to broadcast_message.
EventOf(op) ==
    IF op = "open" THEN "ChannelOpen"
    ELSE IF op = "pay" THEN "Payment" ELSE "ChannelClose"

C18_EventHandedToGossip ==
    (last.op \in {"open", "pay", "close"} /\ last.result = Ok)
      => \E i \in 1 .. Len(published) :
            /\ published[i].kind = EventOf(last.op)
            /\ published[i].channel_id = last.channel_id

\* C16: an inbound gossip message changes a channel's balances or
\* sequence_number only if it is a decoded Payment whose signature is its
\* sender's and whose sequence is the channel's sequence_number + 1; any
\* other message leaves the ledger as it was and is not kept for later.
Applicable(message) ==
    /\ message.decodes /\ message.kind = "Payment"
    /\ message.signature_valid
    /\ message.channel_id \in DOMAIN channels
    /\ message.sequence = channels[message.channel_id].sequence_number + 1

C16_GossipChangesOnlyIfValid ==
    [][(last'.op = "gossip" /\ ~Applicable(inbound'))
         => /\ UNCHANGED Ledger
            /\ \A i \in 1 .. Len(message_queue') :
                  message_queue'[i] # inbound']_vars

C16_Witness ==
    /\ last.op = "gossip"
    /\ inbound.decodes /\ inbound.kind = "Payment"
    /\ ~inbound.signature_valid
    /\ inbound.channel_id \in DOMAIN channels
    /\ channels[inbound.channel_id].is_open
    /\ inbound.sequence = channels[inbound.channel_id].sequence_number + 1

\* C17: a decoded Payment message for a known open channel eventually
\* results in a call of receive with the message's channel_id, amount and
\* sequence.
C17_DecodedPaymentReachesReceive ==
    \A message \in GossipMessages :
        (/\ last.op = "gossip" /\ inbound = message
         /\ message.decodes /\ message.kind = "Payment"
         /\ message.channel_id \in DOMAIN channels
         /\ channels[message.channel_id].is_open)
          ~> (/\ last.op = "receive"
              /\ last.channel_id = message.channel_id
              /\ last.amount = message.amount
              /\ last.sequence = message.sequence)

\* C19: the startup steps complete in program order (the store opened, the
\* migration run, the channels and their commitment histories loaded from
\* the store); a request is served only after all of them; and a run in
\* which a step failed has ended without serving any request.
IsPrefix(s, t) ==
    /\ Len(s) <= Len(t)
    /\ \A i \in 1 .. Len(s) : s[i] = t[i]

C19_StartupBeforeServing ==
    [][/\ IsPrefix(startup'.done, StartupSteps)
       /\ (last'.op \in {"open", "pay", "receive", "close"} /\ last' # last)
            => startup.done = StartupSteps
       /\ (startup.pc = "ChannelManager::new" /\ startup'.pc = "serving")
            => /\ DOMAIN channels' = DOMAIN db_channels
               /\ \A id \in DOMAIN db_channels :
                     /\ channels'[id] = LoadChannel(db_channels[id])
                     /\ commitment_txs'[id]
                          = GetChannelCommitments(db_commitments, id)
       /\ startup'.done # StartupSteps
            => /\ startup'.pc # "serving"
               /\ last'.op = "start"]_vars

\* A later run of the program, started over a store that holds a channel
\* with a commitment history, at the point where it begins to serve.
C19_Witness ==
    /\ startup = Serving
    /\ last.op = "start"
    /\ \E id \in DOMAIN channels : commitment_txs[id] # <<>>

\* C14: a mutating request holds the lock alone from its first check to its
\* last store write; what it leaves when it returns is what the same
\* operation run as one uninterrupted call from the moment it got the lock
\* leaves (so the requests take effect in the order they got the lock: a
\* successful pay is deducted from the balance the store held, which covers
\* it); and a list request never sees a channel whose update is not stored.
Returns(r) ==
    /\ requests[r].pc # "idle" /\ requests'[r].pc = "idle"
    /\ last'.op = requests[r].kind

\* What the request run as one call from the moment it got the lock leaves:
\* noted when it entered, or, if it returns in the step it enters, computed
\* here.
Expected(r) ==
    IF requests[r].pc = "waiting"
    THEN Whole(requests[r], "none")
    ELSE requests[r].expected

Stored(id) == LoadChannel(db_channels[id])

C14_RequestsSerialized ==
    [][/\ \A r \in Requests : InHandler(requests'[r]) => rwlock' = r
       /\ \A r \in Requests :
             Returns(r)
               => LET request == requests[r]
                  IN  /\ last'.result = Expected(r).result
                      /\ channels' = Expected(r).channels
                      /\ commitment_txs' = Expected(r).commitment_txs
                      /\ db_channels' = Expected(r).db_channels
                      /\ db_commitments' = Expected(r).db_commitments
                      /\ db_payments' = Expected(r).db_payments
                      /\ (clean /\ request.kind = "pay" /\ last'.result = Ok)
                           => /\ request.amount
                                   <= Stored(request.channel_id).my_balance
                              /\ channels'[request.channel_id].my_balance
                                   = Stored(request.channel_id).my_balance
                                       - request.amount
                      /\ (clean /\ request.kind = "list")
                           => \A id \in DOMAIN channels :
                                 channels[id] = Stored(id)]_vars

\* Two pays of one channel in flight, each covered by the stored balance
\* and the two together not: one is at its last store write, the other
\* waits for the lock.
C14_Witness ==
    \E r1, r2 \in Requests :
        /\ requests[r1].kind = "pay" /\ requests[r1].pc = "update_channel"
        /\ requests[r2].kind = "pay" /\ requests[r2].pc = "waiting"
        /\ requests[r1].channel_id = requests[r2].channel_id
        /\ requests[r1].channel_id \in DOMAIN db_channels
        /\ requests[r1].amount <= Stored(requests[r1].channel_id).my_balance
        /\ requests[r2].amount <= Stored(requests[r1].channel_id).my_balance
        /\ requests[r1].amount + requests[r2].amount
             > Stored(requests[r1].channel_id).my_balance

\* C15: after a shutdown and restart, with no store call rejected, no
\* stored commitment snapshot or payment record has a sequence number above
\* the stored channel row's sequence_number.
WithinRow(rows) ==
    \A i \in 1 .. Len(rows) :
        /\ rows[i].channel_id \in DOMAIN db_channels
        /\ AsU64(rows[i].sequence)
             <= AsU64(db_channels[rows[i].channel_id].sequence_number)

C15_ShutdownLeavesNoHalfPay ==
    (clean /\ last.op = "restart" /\ rwlock = Unlocked)
      => WithinRow(db_commitments) /\ WithinRow(db_payments)

\* C21: a successful open with a capacity creates a channel that was not in
\* the table, with sequence_number 0, is_open true, that capacity and
\* my_balance = peer_balance = capacity / 2 (integer division), an empty
\* commitment list, and a stored row that reads back as that channel.
C21_OpenEffect ==
    [][(last'.op = "open" /\ last'.result = Ok)
         => \A p \in PeerNodeIds, cap \in Capacities :
            Open(p, cap)
            => LET id == last'.channel_id
               IN  /\ id \notin DOMAIN channels
                   /\ id \notin DOMAIN db_channels
                   /\ id \in DOMAIN channels'
                   /\ channels'[id].capacity = cap
                   /\ channels'[id].my_balance = cap \div 2
                   /\ channels'[id].peer_balance = cap \div 2
                   /\ channels'[id].sequence_number = 0
                   /\ channels'[id].is_open
                   /\ commitment_txs'[id] = <<>>
                   /\ id \in DOMAIN db_channels'
                   /\ LoadChannel(db_channels'[id]) = channels'[id]]_vars

\* A second channel, of odd capacity, just opened.
C21_Witness ==
    /\ LastOn("open") /\ last.result = Ok
    /\ channels[last.channel_id].capacity = 3
    /\ last.channel_id \in DOMAIN db_channels
    /\ \E id \in DOMAIN channels : id # last.channel_id

\* C22: a successful receive of amount at sequence decreases peer_balance by
\* exactly amount, increases my_balance by exactly amount, sets
\* sequence_number to sequence, appends exactly one incoming PaymentRecord
\* with that amount and sequence, and stores the updated channel row.
C22_ReceiveEffect ==
    [][(last'.op = "receive" /\ last'.result = Ok)
         => LET id == last'.channel_id
                before == channels[id]
                after == channels'[id]
            IN  /\ after.peer_balance = before.peer_balance - last'.amount
                /\ after.my_balance = before.my_balance + last'.amount
                /\ after.sequence_number = last'.sequence
                /\ db_payments'
                     = Append(db_payments,
                              PaymentRow([channel_id |-> id,
                                          amount     |-> last'.amount,
                                          direction  |-> "incoming",
                                          sequence   |-> last'.sequence,
                                          is_offline |-> TRUE]))
                /\ LoadChannel(db_channels'[id]) = after]_vars

\* C23: a pay or receive that returns success adds exactly one payment
\* record, whose sequence is the channel's new sequence_number, and a pay
\* or receive that returns an error adds none; no other call adds one.
C23_OneRecordPerTransfer ==
    [][IF last'.op \in {"pay", "receive"} /\ last'.result = Ok
       THEN /\ Len(db_payments') = Len(db_payments) + 1
            /\ SubSeq(db_payments', 1, Len(db_payments)) = db_payments
            /\ db_payments'[Len(db_payments')].channel_id = last'.channel_id
            /\ AsU64(db_payments'[Len(db_payments')].sequence)
                 = channels'[last'.channel_id].sequence_number
       ELSE db_payments' = db_payments]_vars

\* C25: a pay that fails on a store failure is answered with a server error
\* (5xx); a pay that fails on NotFound, InvalidState or InsufficientFunds
\* is answered with a client error (4xx) that differs from the answer to
\* each other kind of failure.
BusinessFailures == {ChannelNotFound, ChannelNotOpen, InsufficientBalance}

C25_FailuresSurfacedByKind ==
    last.op = "pay"
      => /\ last.result = StoreError
              => StatusCode(last.result) \in 500 .. 599
         /\ last.result \in BusinessFailures
              => /\ StatusCode(last.result) \in 400 .. 499
                 /\ \A other \in (BusinessFailures \cup {StoreError})
                                   \ {last.result} :
                       StatusCode(other) # StatusCode(last.result)

\* C26: pay, receive and close on a channel id that is not in the table
\* fail with "Channel not found" and leave the channel table, the
\* commitment lists and the store as they were.
C26_UnknownChannelRejected ==
    [][(/\ last'.op \in {"pay", "receive", "close"}
        /\ last'.channel_id \notin DOMAIN channels)
         => (last'.result = ChannelNotFound /\ UNCHANGED Ledger)]_vars

\* A call on an unknown id while the table holds a channel with history.
C26_Witness ==
    /\ last.op \in {"pay", "receive", "close"}
    /\ last.channel_id \notin DOMAIN channels
    /\ last.result = ChannelNotFound
    /\ db_commitments # <<>>

\* C27: a successful close of a known channel sets is_open = false in
\* memory and in the store and leaves the channel's my_balance,
\* peer_balance, sequence_number and commitment history unchanged; a
\* successful close of a channel that is already closed changes nothing.
C27_CloseEffect ==
    [][(last'.op = "close" /\ last'.result = Ok)
         => LET id == last'.channel_id
            IN  /\ channels'[id] = [channels[id] EXCEPT !.is_open = FALSE]
                /\ ~db_channels'[id].is_open
                /\ commitment_txs'[id] = commitment_txs[id]
                /\ db_commitments' = db_commitments
                /\ ~channels[id].is_open => UNCHANGED Ledger]_vars

\* C28: no open, pay, receive or close removes a channel from the table or
\* the store, and none removes or alters a commitment snapshot or payment
\* record that exists: the tables only grow at their end.
C28_HistoryAppendOnly ==
    [][last'.op \in {"open", "pay", "receive", "close"}
         => /\ DOMAIN channels \subseteq DOMAIN channels'
            /\ DOMAIN db_channels \subseteq DOMAIN db_channels'
            /\ \A id \in DOMAIN commitment_txs :
                  /\ id \in DOMAIN commitment_txs'
                  /\ IsPrefix(commitment_txs[id], commitment_txs'[id])
            /\ IsPrefix(db_commitments, db_commitments')
            /\ IsPrefix(db_payments, db_payments')]_vars

\* A closed channel with two snapshots and two payment records.
C28_Witness ==
    /\ LastOn("close") /\ last.result = Ok
    /\ Len(commitment_txs[last.channel_id]) >= 2
    /\ Len(RowsOf(db_commitments, last.channel_id)) >= 2
    /\ Len(RowsOf(db_payments, last.channel_id)) >= 2

\* C30: an open that fails (peer identifier neither an overlay identifier
\* nor a hex-encoded public key, or the store write of the new channel
\* rejected) leaves the channel table, the commitment table and the store
\* unchanged.
C30_FailedOpenChangesNothing ==
    [][(last'.op = "open" /\ last'.result # Ok) => UNCHANGED Ledger]_vars

\* An open whose store write was rejected, in a node that holds a channel.
C30_Witness ==
    /\ last.op = "open" /\ last.result = StoreError
    /\ last.channel_id \notin DOMAIN channels
    /\ channels # <<>>

\* C24: the joint address is symmetric in the two parties (the address this
\* node derives from the other party's public key is the address the other
\* party derives from this node's public key), a repeated derivation by
\* the same party gives the same address, and so does a repeated open with
\* the same peer identifier, in either accepted form.
C24_JointAddressSymmetric ==
    /\ crypto.call.op = "create_multisig_address"
          => /\ crypto.call.address
                   = CreateMultisigAddress(KeyManager(crypto.call.other),
                                           crypto.key_manager.public_key)
             /\ crypto.call.repeats
                   => crypto.call.address = crypto.call.previous
    /\ (/\ crypto.call.op = "open_channel"
        /\ crypto.call.result = Ok
        /\ crypto.call.repeats)
          => crypto.call.address = crypto.call.previous

\* hex::decode and Signature::from_compact of the signature a snapshot
\* carries.
SignatureOf(commitment) ==
    LET bytes == commitment.signature.hex
    IN  [digest |-> bytes[1], signer |-> bytes[2]]

\* C29: signing never fails; verifying a signature gives true for the
\* bytes that were signed and the public key of the key pair that signed
\* them, and false (a bool, never an error) when the public key is another
\* key pair's or the bytes differ; and the signature of a commitment
\* snapshot verifies over the snapshot's raw_tx under the node's public
\* key.
C29_SignatureRoundTrip ==
    /\ crypto.call.op = "sign_message" => crypto.call.ok
    /\ crypto.call.op = "verify_signature"
          => /\ crypto.call.result \in BOOLEAN
             /\ crypto.call.result
                   = (/\ crypto.call.message = crypto.held.message
                      /\ crypto.call.pubkey = PublicKey(crypto.held.signer))
    /\ crypto.call.op = "create_commitment_transaction"
          => /\ crypto.call.ok
             /\ VerifySignature(crypto.call.commitment.raw_tx,
                                SignatureOf(crypto.call.commitment),
                                crypto.key_manager.public_key)

\* A signature made by an earlier key pair is verified against other
\* bytes under the public key that signed it, and refused.
C29_Witness ==
    /\ crypto.call.op = "verify_signature"
    /\ crypto.held.signer # crypto.key_manager.private_key
    /\ crypto.call.pubkey = PublicKey(crypto.held.signer)
    /\ crypto.call.message # crypto.held.message
    /\ ~crypto.call.result

\* C32: each successful pay or receive preserves my_balance + peer_balance,
\* and neither its subtraction nor its addition wraps.
C32_SumPreservedWithoutWrap ==
    [][(last'.op \in {"pay", "receive"} /\ last'.result = Ok)
         => LET id == last'.channel_id
                before == channels[id]
                after == channels'[id]
                amount == last'.amount
            IN  /\ after.my_balance + after.peer_balance
                      = before.my_balance + before.peer_balance
                /\ last'.op = "pay"
                      => /\ before.my_balance - amount >= 0
                         /\ before.peer_balance + amount < Word
                /\ last'.op = "receive"
                      => /\ before.peer_balance - amount >= 0
                         /\ before.my_balance + amount < Word]_vars

\* 0 <= my_balance <= capacity and 0 <= peer_balance <= capacity.
InRange(channel) ==
    /\ channel.my_balance \in 0 .. channel.capacity
    /\ channel.peer_balance \in 0 .. channel.capacity

\* C33: a receive that reaches `peer_balance -= amount` never has
\* amount > peer_balance (the subtraction does not underflow), and in every
\* reachable state both balances of every channel lie in 0 .. capacity.
C33_ReceiveNeverUnderflows ==
    /\ [](\A id \in DOMAIN channels : InRange(channels[id]))
    /\ [][(/\ last'.op = "receive"
           /\ last'.result \notin {ChannelNotFound, ChannelNotOpen})
            => channels[last'.channel_id].peer_balance >= last'.amount]_vars

\* The amounts of the incoming payment rows minus those of the outgoing
\* ones, each read back as get_channel_payments reads it.
RECURSIVE NetReceived(_)
NetReceived(rows) ==
    IF rows = <<>> THEN 0
    ELSE (IF Head(rows).direction = "incoming"
          THEN AsU64(Head(rows).amount)
          ELSE 0 - AsU64(Head(rows).amount))
         + NetReceived(Tail(rows))

\* C34: in every reachable state, also after calls that returned an error,
\* a channel's my_balance is capacity / 2 minus the amounts of its stored
\* outgoing payment records plus the amounts of its stored incoming ones.
C34_BalanceMatchesPaymentRecords ==
    \A id \in DOMAIN channels :
        channels[id].my_balance
            = channels[id].capacity \div 2
                + NetReceived(RowsOf(db_payments, id))

\* The two lists hold the same snapshots, each as many times in one as in
\* the other.
Occurrences(snapshots, snapshot) ==
    Cardinality({i \in 1 .. Len(snapshots) : snapshots[i] = snapshot})

SameSnapshots(left, right) ==
    /\ Len(left) = Len(right)
    /\ \A i \in 1 .. Len(left) :
          Occurrences(left, left[i]) = Occurrences(right, left[i])

\* C36: in every reachable state (after the load at startup and after any
\* open, pay, receive or close, failed or not) the commitment table has an
\* entry for exactly the ids of the channel table, and each entry holds
\* exactly the snapshots stored for its channel.
C36_CommitmentTableMatchesChannels ==
    /\ DOMAIN commitment_txs = DOMAIN channels
    /\ \A id \in DOMAIN channels :
          SameSnapshots(commitment_txs[id],
                        MapLoadCommitment(RowsOf(db_commitments, id)))

\* A restart, after a call that ended in a store error or a panic, has
\* loaded a channel with two snapshots.
C36_Witness ==
    /\ last.op = "restart"
    /\ ~clean
    /\ \E id \in DOMAIN channels : Len(commitment_txs[id]) >= 2

\* Channel id, its commitment list and everything stored for it are what
\* they were.
Untouched(id) ==
    /\ channels'[id] = channels[id]
    /\ commitment_txs'[id] = commitment_txs[id]
    /\ id \in DOMAIN db_channels => db_channels'[id] = db_channels[id]
    /\ RowsOf(db_commitments', id) = RowsOf(db_commitments, id)
    /\ RowsOf(db_payments', id) = RowsOf(db_payments, id)

\* C35: pay, receive and close on a channel leave every other channel and
\* its commitment history unchanged, open leaves every existing channel
\* unchanged, and no step (a restart included) changes the id a channel is
\* held under or its capacity, in memory or in the store.
C35_OnlyTargetChannelChanges ==
    [][/\ last'.op \in {"pay", "receive", "close"}
            => \A id \in DOMAIN channels \ {last'.channel_id} : Untouched(id)
       /\ last'.op = "open"
            => \A id \in DOMAIN channels : Untouched(id)
       /\ \A id \in DOMAIN channels :
             /\ id \in DOMAIN channels'
             /\ channels'[id].capacity = channels[id].capacity
       /\ \A id \in DOMAIN db_channels :
             /\ id \in DOMAIN db_channels'
             /\ db_channels'[id].capacity = db_channels[id].capacity]_vars

\* A successful pay on one channel while another channel has a history.
C35_Witness ==
    /\ LastOn("pay") /\ last.result = Ok
    /\ \E other \in DOMAIN channels \ {last.channel_id} :
          /\ commitment_txs[other] # <<>>
          /\ RowsOf(db_payments, other) # <<>>

\* C31: at every step of the overlay's event loop the peers table holds
\* exactly the peers that have at least one established connection that
\* has not been closed.
C31_PeersAreTheConnected ==
    /\ DOMAIN peers = {peer_id \in PeerIds : connections[peer_id] > 0}
    /\ GetConnectedPeers
          = {PeerIdToString(peer_id) : peer_id \in
                {p \in PeerIds : connections[p] > 0}}
====
